---- MODULE Spec2Model ----
\* A model of 4_slides_filter.py: the compaction of progressively revealed
\* slides.  A document is a sequence of page texts; a text is a sequence of
\* characters.  The per-file pipeline is
\*   extract_slide_information -> create_slide_dict -> filter_slide_dict
\*   -> filter_pdf_pages
\* run once in the calling process (file mode) or once per discovered file in
\* a pool of worker processes (directory mode).
EXTENDS Integers, Sequences, FiniteSets, TLC

\* ---------------------------------------------------------------- bounds

\* File mode: pages per document and characters per page text.
MaxPages == 3
MaxText == 2
\* Directory mode: files in the directory and worker processes of the pool
\* (ProcessPoolExecutor() sizes the pool by the machine's processor count).
MaxFiles == 2
MaxWorkers == 2
\* Transcription: audio files handed to process_multiple_files.
MaxAudio == 4

\* ---------------------------------------------------------------- texts

NL == "\n"
Chars == {"a", NL}

Texts(n) == UNION {[1..k -> Chars] : k \in 0..n}
Documents(p, t) == UNION {[1..k -> Texts(t)] : k \in 0..p}

NoTitle == <<"N", "o", " ", "T", "i", "t", "l", "e">>
NoContent == <<"N", "o", " ", "C", "o", "n", "t", "e", "n", "t">>

Range(s) == {s[i] : i \in DOMAIN s}
Max(a, b) == IF a >= b THEN a ELSE b

\* text.split("\n"): the pieces between newlines; never empty.
RECURSIVE split(_)
split(text) ==
    IF \A i \in 1..Len(text) : text[i] # NL
    THEN <<text>>
    ELSE LET i == CHOOSE j \in 1..Len(text) :
                      text[j] = NL /\ \A k \in 1..(j - 1) : text[k] # NL
         IN <<SubSeq(text, 1, i - 1)>> \o split(SubSeq(text, i + 1, Len(text)))

\* "\n".join(lines)
RECURSIVE join(_)
join(lines) ==
    IF lines = <<>> THEN <<>>
    ELSE IF Len(lines) = 1 THEN lines[1]
    ELSE lines[1] \o <<NL>> \o join(Tail(lines))

\* ---------------------------------------------------------------- Slide

Slide(page_number, title, content) ==
    [page_number |-> page_number, title |-> title, content |-> content,
     content_length |-> Len(content)]

\* The body of the extraction loop for the 0-based page index page_number.
page_slide(page_number, text) ==
    LET lines == split(text)
        title == IF lines[1] # <<>> THEN lines[1] ELSE NoTitle
        content == IF Len(lines) > 1 THEN join(Tail(lines)) ELSE NoContent
    IN Slide(page_number + 1, title, content)

RECURSIVE extract_loop(_, _, _)
extract_loop(document, page_number, slides) ==
    IF page_number >= Len(document) THEN slides
    ELSE LET lines == split(document[page_number + 1])
         IN extract_loop(document, page_number + 1,
                         IF lines # <<>>
                         THEN Append(slides, page_slide(page_number, document[page_number + 1]))
                         ELSE slides)

\* The slides appended before the exception: err = 0: fitz.open raises;
\* err = k >= 1: reading page k raises, after pages 1..k-1 were read.
extract_prefix(document, err) ==
    IF err = 0 THEN <<>> ELSE extract_loop(SubSeq(document, 1, err - 1), 0, <<>>)

\* "except Exception: ... return []": what is returned when slides holds the
\* pages read so far.
ReturnPartial(slides) == slides
ExceptReturn(slides) == <<>>

\* err = -1: nothing raises; err = 0: fitz.open raises; err = k >= 1: reading
\* page k raises.  Any exception is caught and the result is the empty list.
extract_slide_information(document, err) ==
    IF err = -1 THEN extract_loop(document, 0, <<>>)
    ELSE ExceptReturn(extract_prefix(document, err))

\* ---------------------------------------------------------------- dicts

EmptyDict == <<>>
DictSet(d, k, v) == [x \in (DOMAIN d) \cup {k} |-> IF x = k THEN v ELSE d[x]]

\* slide_dict after "if slide.title not in slide_dict: slide_dict[title] = {}"
GroupReset(slide_dict, title) == DictSet(slide_dict, title, EmptyDict)
EnsureGroup(slide_dict, title) ==
    IF title \notin DOMAIN slide_dict
    THEN DictSet(slide_dict, title, EmptyDict)
    ELSE slide_dict

RECURSIVE create_slide_dict_loop(_, _)
create_slide_dict_loop(slides, slide_dict) ==
    IF slides = <<>> THEN slide_dict
    ELSE LET slide == Head(slides)
             d == EnsureGroup(slide_dict, slide.title)
         IN create_slide_dict_loop(
                Tail(slides),
                DictSet(d, slide.title,
                        DictSet(d[slide.title], slide.page_number, slide.content_length)))

create_slide_dict(slides) == create_slide_dict_loop(slides, EmptyDict)

\* sorted(S) for a set of integers
RECURSIVE sorted(_)
sorted(S) ==
    IF S = {} THEN <<>>
    ELSE LET m == CHOOSE x \in S : \A y \in S : x <= y
         IN <<m>> \o sorted(S \ {m})

\* ---------------------------------------------------------------- selection

\* "pages[page_numbers[i]] < pages[page_numbers[i - 1]]"
ShrankOrTied(cur, prev) == cur <= prev
Shrank(cur, prev) == cur < prev

\* The length the current one is compared with: that of the preceding page,
\* not the running maximum.
ComparedWithMax(prev, max_length) == max_length
ComparedWith(prev, max_length) == prev

\* keep_pages.append(page_numbers[i - 1]), i the 0-based loop index
MarkCurrent(keep_pages, page_numbers, i) == Append(keep_pages, page_numbers[i + 1])
MarkPeak(keep_pages, page_numbers, i) == Append(keep_pages, page_numbers[i])

\* keep_pages.append(page_numbers[-1])
DropLast(keep_pages, page_numbers) == keep_pages
KeepLast(keep_pages, page_numbers) == Append(keep_pages, page_numbers[Len(page_numbers)])

\* The for loop of find_pages_to_keep; i is the 0-based index.
RECURSIVE find_pages_loop(_, _, _, _, _)
find_pages_loop(pages, page_numbers, i, keep_pages, max_length) ==
    IF i >= Len(page_numbers) THEN keep_pages
    ELSE LET cur == pages[page_numbers[i + 1]]
             prev == pages[page_numbers[i]]
         IN find_pages_loop(pages, page_numbers, i + 1,
                            IF Shrank(cur, ComparedWith(prev, max_length))
                            THEN MarkPeak(keep_pages, page_numbers, i)
                            ELSE keep_pages,
                            Max(max_length, cur))

find_pages_to_keep(pages) ==
    LET page_numbers == sorted(DOMAIN pages)
    IN KeepLast(find_pages_loop(pages, page_numbers, 1, <<>>, pages[page_numbers[1]]),
                page_numbers)

\* list(pages.keys()) of a group with at most one page
SingletonLengths(pages) == [i \in 1..Cardinality(DOMAIN pages) |-> pages[sorted(DOMAIN pages)[i]]]
SingletonKeys(pages) == sorted(DOMAIN pages)

filter_slide_dict(slide_dict) ==
    [title \in DOMAIN slide_dict |->
        IF Cardinality(DOMAIN slide_dict[title]) > 1
        THEN find_pages_to_keep(slide_dict[title])
        ELSE SingletonKeys(slide_dict[title])]

\* ---------------------------------------------------------------- compaction

\* pages_to_keep: the union of the lists of filtered_dict
union_pages(filtered_dict) == UNION {Range(filtered_dict[t]) : t \in DOMAIN filtered_dict}

\* output_document.insert_pdf(document, from_page, to_page): appends the
\* source pages from_page..to_page (0-based, inclusive); the library clamps
\* both to the source's page range, a negative to_page meaning the last page.
Min(a, b) == IF a <= b THEN a ELSE b
insert_pdf(output_document, document, from_page, to_page) ==
    LET last == Len(document) - 1
        fp == Min(Max(from_page, 0), last)
        tp == IF to_page < 0 THEN last ELSE Min(to_page, last)
    IN output_document \o
           [i \in 1..(tp - fp + 1) |-> [src |-> fp + i - 1, text |-> document[fp + i]]]

\* The 0-based index handed to insert_pdf for the 1-based page_number.
FromPage(page_number) == page_number - 1

RECURSIVE insert_loop(_, _, _)
insert_loop(document, order, output_document) ==
    IF order = <<>> THEN output_document
    ELSE insert_loop(document, Tail(order),
                     insert_pdf(output_document, document,
                                FromPage(Head(order)), FromPage(Head(order))))

\* len(document): the page count, or ValueError on a closed document.
document_len(document, is_closed) ==
    IF is_closed THEN [raised |-> TRUE, value |-> 0]
    ELSE [raised |-> FALSE, value |-> Len(document)]

\* The error and info records of logging.error / logging.info.
LogError(event) == [level |-> "ERROR", event |-> event, n |-> 0]
LogInfo(event, n) == [level |-> "INFO", event |-> event, n |-> n]

NoOutput == [state |-> "absent", pages |-> <<>>]
PartialOutput == [state |-> "partial", pages |-> <<>>]
SavedOutput(output_document) == [state |-> "saved", pages |-> output_document]

SaveOutcomes == {"ok", "error", "error_partial"}

\* filter_pdf_pages from fitz.open(pdf_path) to the end of the insert loop:
\* the document it opened, the pages_to_keep it computed and the
\* output_document it built in memory.
filter_pdf_pages_insert(document, filtered_dict) ==
    LET keep == union_pages(filtered_dict)
    IN [document |-> document,
        pages_to_keep |-> keep,
        output_document |-> insert_loop(document, sorted(keep), <<>>)]

\* filter_pdf_pages from output_document.save(output_path) to its return:
\* what it leaves at the output path and what it logs.  save: the outcome of
\* output_document.save when it has pages to write (saving a document of zero
\* pages always raises).
filter_pdf_pages_save(document, output_document, pages_to_keep, save) ==
    IF Len(output_document) = 0
    THEN [output |-> NoOutput, log |-> <<LogError("filter_pdf_pages")>>]
    ELSE IF save # "ok"
    THEN [output |-> IF save = "error_partial" THEN PartialOutput ELSE NoOutput,
          log |-> <<LogError("filter_pdf_pages")>>]
    ELSE LET n == document_len(document, TRUE)
         IN [output |-> SavedOutput(output_document),
             log |-> IF n.raised
                     THEN <<LogError("filter_pdf_pages")>>
                     ELSE <<LogInfo("saved", 0),
                            LogInfo("removed", n.value - Cardinality(pages_to_keep))>>]

\* ---------------------------------------------------------------- output paths

Pdf == <<".", "p", "d", "f">>
FilteredSuffix == <<"_", "f", "i", "l", "t", "e", "r", "e", "d">>
FilteredPdf == FilteredSuffix \o Pdf

\* The names a directory listing is drawn from:
\* a.pdf, a_filtered.pdf, a.pdf.pdf, b.pdf and a.txt.
SampleNames ==
    {<<"a">> \o Pdf, <<"a">> \o FilteredPdf, <<"a">> \o Pdf \o Pdf,
     <<"b">> \o Pdf, <<"a", ".", "t", "x", "t">>}

\* Directory mode draws the pdf files of the directory from these samples,
\* a directory as two earlier runs into it leave it: a.pdf of one page, and
\* a_filtered.pdf and a_filtered_filtered.pdf of two pages of one title, the
\* second with the shorter content.
SampleFiles ==
    {[name |-> <<"a">> \o Pdf, document |-> << <<"a">> >>],
     [name |-> <<"a">> \o FilteredPdf, document |-> << <<"a">>, <<"a", NL, "a">> >>],
     [name |-> <<"a">> \o FilteredSuffix \o FilteredPdf,
      document |-> << <<"a">>, <<"a", NL, "a">> >>]}

\* The directories of n files, in the order os.listdir lists them.
Listings(n) ==
    {l \in [1..n -> SampleFiles] : \A i, j \in 1..n : i # j => l[i] # l[j]}

\* s has pat at index i (1-based)
HasAt(s, i, pat) ==
    /\ i + Len(pat) - 1 <= Len(s)
    /\ \A k \in 1..Len(pat) : s[i + k - 1] = pat[k]

\* s.endswith(suffix)
endswith(s, suffix) ==
    Len(suffix) <= Len(s) /\ HasAt(s, Len(s) - Len(suffix) + 1, suffix)

\* s.replace(old, new): every occurrence of old, from the left, not overlapping
RECURSIVE replace_from(_, _, _, _)
replace_from(s, i, old, new) ==
    IF i > Len(s) THEN <<>>
    ELSE IF HasAt(s, i, old) THEN new \o replace_from(s, i + Len(old), old, new)
    ELSE <<s[i]>> \o replace_from(s, i + 1, old, new)

replace(s, old, new) == replace_from(s, 1, old, new)

\* os.path.join(directory, name) for a name without separators
path_join(directory, name) == [dir |-> directory, name |-> name]
\* os.path.basename(path)
basename(path) == path.name

\* The path process_directory hands to process_file for the listed name.
SourcePath(name) == path_join("input", name)

\* output_path of filter_pdf_pages for pdf_path and the output directory.
output_path_of(pdf_path, directory) ==
    path_join(directory, replace(basename(pdf_path), Pdf, FilteredPdf))

\* ---------------------------------------------------------------- state

VARIABLES
    mode,           \* what input_path is: "file" or "dir"
    workers,        \* directory mode: size of the process pool
    names,          \* file -> its name in the input directory
    corrupt,        \* the files whose source path holds a partly written file
    documents,      \* file -> the document at its source path (a sequence
                    \* of page texts), as fitz.open reads it now
    main_pc,        \* where the calling process is
    pc,             \* file -> where its process_file call is
    consumed,       \* directory mode: futures as_completed has yielded
    slides,         \* file -> result of extract_slide_information
    slide_dict,     \* file -> result of create_slide_dict
    filtered_dict,  \* file -> result of filter_slide_dict
    src_document,   \* file -> the document filter_pdf_pages opened
    out_document,   \* file -> the output_document filter_pdf_pages built
    pages_to_keep,  \* file -> pages_to_keep of filter_pdf_pages
    output,         \* file -> what its filter_pdf_pages left at its output path
    log,            \* file -> what its process_file call logged
    main_log,       \* what the calling process logged
    output_dir      \* the output directory: "absent", "existing" or "created"

VARIABLES
    listing,        \* the names os.listdir finds in the input directory
    same_dir,       \* whether the output directory is the input directory
    pdf_files,      \* process_directory's pdf_files
    path_pc,        \* "start" before the directory is listed, then "listed"
    out_path        \* name of a pdf file -> the output path derived for it

VARIABLES
    w_files,        \* the audio files handed to process_multiple_files
    w_pc,           \* audio file -> where its transcribe_audio call is
    w_model,        \* the attribute transcribe_audio.model: 0 unset, else a model
    w_loads,        \* how many times whisper.load_model has returned a model
    w_local,        \* audio file -> the model its call loaded and has yet to assign
    w_used          \* audio file -> the model its transcription used (0: none)

mainVars == <<main_log, output_dir>>
pathVars == <<listing, same_dir, pdf_files, path_pc, out_path>>
whisperVars == <<w_files, w_pc, w_model, w_loads, w_local, w_used>>
auxVars == <<pathVars, whisperVars>>
pipeVars == <<mode, workers, names, corrupt, documents, main_pc, pc, consumed,
              slides, slide_dict, filtered_dict, src_document, out_document,
              pages_to_keep, output, log>>

vars == <<pipeVars, mainVars, pathVars, whisperVars>>

Files == DOMAIN documents

\* No directory listing under study.
PathUnlisted ==
    /\ listing = {}
    /\ pdf_files = {}
    /\ path_pc = "start"
    /\ out_path = <<>>

\* The output directory is not the input directory.
PathIdle ==
    /\ PathUnlisted
    /\ same_dir = FALSE

\* No transcription under study.
WhisperIdle ==
    /\ w_files = {}
    /\ w_pc = <<>>
    /\ w_model = 0
    /\ w_loads = 0
    /\ w_local = <<>>
    /\ w_used = <<>>

AuxIdle == PathIdle /\ WhisperIdle

\* Nothing has run for any file.
InitState ==
    /\ corrupt = {}
    /\ pc = [f \in Files |-> "idle"]
    /\ consumed = {}
    /\ slides = [f \in Files |-> <<>>]
    /\ slide_dict = [f \in Files |-> EmptyDict]
    /\ filtered_dict = [f \in Files |-> EmptyDict]
    /\ src_document = [f \in Files |-> <<>>]
    /\ out_document = [f \in Files |-> <<>>]
    /\ pages_to_keep = [f \in Files |-> {}]
    /\ output = [f \in Files |-> NoOutput]
    /\ log = [f \in Files |-> <<>>]
    /\ main_log = <<>>

\* The state in which process_input_path is called.
InitFiles ==
    /\ main_pc = "start"
    /\ InitState

\* input_path names one file.
Init ==
    /\ mode = "file"
    /\ workers = 0
    /\ documents \in [{1} -> Documents(MaxPages, MaxText)]
    /\ names = [f \in {1} |-> <<"a">> \o Pdf]
    /\ output_dir = "existing"
    /\ InitFiles
    /\ AuxIdle

\* input_path names a directory of 0..MaxFiles pdf files, numbered in the
\* order os.listdir lists them; the output directory is that directory or
\* another one.
BatchInit ==
    /\ mode = "dir"
    /\ workers \in 1..MaxWorkers
    /\ \E n \in 0..MaxFiles : \E l \in Listings(n) :
           /\ documents = [f \in 1..n |-> l[f].document]
           /\ names = [f \in 1..n |-> l[f].name]
    /\ same_dir \in BOOLEAN
    /\ output_dir = "existing"
    /\ InitFiles
    /\ PathUnlisted
    /\ WhisperIdle

\* main is called with an input path that names a file, a directory or
\* neither, the output directory existing or not.
MainInit ==
    /\ mode \in {"file", "dir", "invalid"}
    /\ workers \in (IF mode = "dir" THEN 1..MaxWorkers ELSE {0})
    /\ \E n \in (IF mode = "dir" THEN 0..MaxFiles ELSE IF mode = "file" THEN {1} ELSE {0}) :
       \E l \in Listings(n) :
           /\ documents = [f \in 1..n |-> l[f].document]
           /\ names = [f \in 1..n |-> l[f].name]
    /\ output_dir \in {"absent", "existing"}
    /\ InitState
    /\ main_pc = "main"
    /\ AuxIdle

\* ---------------------------------------------------------------- actions

\* main: os.makedirs(output_dir, exist_ok=True), then process_input_path.
\* A makedirs that raises ends the program.
Main ==
    /\ main_pc = "main"
    /\ \E makedirs_ok \in BOOLEAN :
           IF makedirs_ok
           THEN /\ output_dir' = IF output_dir = "absent" THEN "created" ELSE output_dir
                /\ main_pc' = "start"
           ELSE /\ output_dir' = output_dir
                /\ main_pc' = "crashed"
    /\ UNCHANGED <<mode, workers, names, corrupt, documents, pc, consumed, slides, slide_dict,
                   filtered_dict, src_document, out_document,
                   pages_to_keep, output, log, main_log>>
    /\ UNCHANGED auxVars

\* process_input_path: a file is processed by the caller itself; for a
\* directory process_directory submits one process_file task per pdf file.
ProcessInputPath ==
    /\ main_pc = "start"
    /\ IF mode = "file"
       THEN /\ pc' = [f \in Files |-> "extract_slide_information"]
            /\ main_pc' = "process_file"
            /\ main_log' = main_log
       ELSE IF mode = "dir"
       THEN /\ pc' = [f \in Files |-> "queued"]
            /\ main_pc' = "as_completed"
            /\ main_log' = main_log
       ELSE /\ pc' = pc
            /\ main_pc' = "finished"
            /\ main_log' = Append(main_log, LogError("process_input_path"))
    /\ UNCHANGED <<mode, workers, names, corrupt, documents, consumed, slides, slide_dict,
                   filtered_dict, src_document, out_document,
                   pages_to_keep, output, log, output_dir>>
    /\ UNCHANGED auxVars

Running == {f \in Files : pc[f] \notin {"idle", "queued", "done"}}

\* The pool hands the next submitted task to a free worker process.
WorkerStart(f) ==
    /\ pc[f] = "queued"
    /\ \A g \in Files : pc[g] = "queued" => f <= g
    /\ Cardinality(Running) < workers
    /\ pc' = [pc EXCEPT ![f] = "extract_slide_information"]
    /\ UNCHANGED <<mode, workers, names, corrupt, documents, main_pc, consumed, slides, slide_dict,
                   filtered_dict, src_document, out_document,
                   pages_to_keep, output, log>>
    /\ UNCHANGED <<mainVars, auxVars>>

\* Where process_file goes after extract_slide_information returned.
AbortOnExtractError(err) ==
    IF err = -1 THEN "create_slide_dict" ELSE "aborted"
AfterExtract(err) == "create_slide_dict"

\* fitz.open reads the file that is at the source path now; a partly written
\* file does not open.
ExtractSlideInformation(f) ==
    /\ pc[f] = "extract_slide_information"
    /\ \E err \in (IF f \in corrupt THEN {0} ELSE -1..Len(documents[f])) :
        /\ slides' = [slides EXCEPT ![f] = extract_slide_information(documents[f], err)]
        /\ log' = [log EXCEPT ![f] =
                      IF err = -1 THEN @
                      ELSE Append(@, LogError("extract_slide_information"))]
        /\ pc' = [pc EXCEPT ![f] = AfterExtract(err)]
    /\ UNCHANGED <<mode, workers, names, corrupt, documents, main_pc, consumed, slide_dict,
                   filtered_dict, src_document, out_document,
                   pages_to_keep, output>>
    /\ UNCHANGED <<mainVars, auxVars>>

\* The slides process_file hands to create_slide_dict: those of its own file.
SlidesOf(f) == slides[f]

CreateSlideDict(f) ==
    /\ pc[f] = "create_slide_dict"
    /\ slide_dict' = [slide_dict EXCEPT ![f] = create_slide_dict(SlidesOf(f))]
    /\ pc' = [pc EXCEPT ![f] = "filter_slide_dict"]
    /\ UNCHANGED <<mode, workers, names, corrupt, documents, main_pc, consumed, slides,
                   filtered_dict, src_document, out_document,
                   pages_to_keep, output, log>>
    /\ UNCHANGED <<mainVars, auxVars>>

FilterSlideDict(f) ==
    /\ pc[f] = "filter_slide_dict"
    /\ filtered_dict' = [filtered_dict EXCEPT ![f] = filter_slide_dict(slide_dict[f])]
    /\ pc' = [pc EXCEPT ![f] = "filter_pdf_pages"]
    /\ UNCHANGED <<mode, workers, names, corrupt, documents, main_pc, consumed, slides,
                   slide_dict, src_document, out_document, pages_to_keep, output, log>>
    /\ UNCHANGED <<mainVars, auxVars>>

\* output_path of filter_pdf_pages, tabulated for the sample files and the
\* two output directories.
OutputPaths ==
    [name \in {file.name : file \in SampleFiles}, directory \in {"input", "output"} |->
        output_path_of(SourcePath(name), directory)]

\* output_path of filter_pdf_pages for the file f.
OutputPathOf(f) == OutputPaths[names[f], IF same_dir THEN "input" ELSE "output"]

\* The files of the batch whose source path is the output path of f:
\* output_document.save(output_path) replaces what fitz.open(pdf_path) reads
\* for them from then on.
Overwritten(f) ==
    LET output_path == OutputPathOf(f)
    IN {g \in Files : SourcePath(names[g]) = output_path}

\* The document a saved output file holds.
PageTexts(pages) == [i \in DOMAIN pages |-> pages[i].text]

\* filter_pdf_pages opens pdf_path again and builds output_document from the
\* file that is at the source path now, which is not the one
\* extract_slide_information read when another worker saved its output there
\* in between.  A fitz.open that raises ends the call.
FilterPdfPages(f) ==
    /\ pc[f] = "filter_pdf_pages"
    /\ \E open_ok \in (IF f \in corrupt THEN {FALSE} ELSE BOOLEAN) :
           IF open_ok
           THEN LET r == filter_pdf_pages_insert(documents[f], filtered_dict[f])
                IN /\ src_document' = [src_document EXCEPT ![f] = r.document]
                   /\ out_document' = [out_document EXCEPT ![f] = r.output_document]
                   /\ pages_to_keep' = [pages_to_keep EXCEPT ![f] = r.pages_to_keep]
                   /\ log' = log
                   /\ pc' = [pc EXCEPT ![f] = "save"]
           ELSE /\ UNCHANGED <<src_document, out_document, pages_to_keep>>
                /\ log' = [log EXCEPT ![f] = Append(@, LogError("filter_pdf_pages"))]
                /\ pc' = [pc EXCEPT ![f] = "done"]
    /\ UNCHANGED <<mode, workers, names, corrupt, documents, main_pc, consumed,
                   slides, slide_dict, filtered_dict, output>>
    /\ UNCHANGED <<mainVars, auxVars>>

\* output_document.save(output_path) and the rest of filter_pdf_pages: the
\* pages written are those read when the source was opened, whatever is at
\* the source path by now.
FilterPdfPagesSave(f) ==
    /\ pc[f] = "save"
    /\ \E save \in SaveOutcomes :
        LET r == filter_pdf_pages_save(src_document[f], out_document[f],
                                       pages_to_keep[f], save)
            overwritten == IF r.output.state = "absent" THEN {} ELSE Overwritten(f)
        IN /\ output' = [output EXCEPT ![f] = r.output]
           /\ log' = [log EXCEPT ![f] = @ \o r.log]
           /\ documents' = [g \in Files |->
                               IF g \in overwritten /\ r.output.state = "saved"
                               THEN PageTexts(r.output.pages)
                               ELSE documents[g]]
           /\ corrupt' = IF r.output.state = "saved" THEN corrupt \ overwritten
                         ELSE corrupt \cup overwritten
    /\ pc' = [pc EXCEPT ![f] = "done"]
    /\ UNCHANGED <<mode, workers, names, main_pc, consumed, slides, slide_dict,
                   filtered_dict, src_document, out_document, pages_to_keep>>
    /\ UNCHANGED <<mainVars, auxVars>>

\* File mode: process_file returns to process_input_path.
ProcessFileReturn ==
    /\ mode = "file"
    /\ main_pc = "process_file"
    /\ \A f \in Files : pc[f] = "done"
    /\ main_pc' = "finished"
    /\ UNCHANGED <<mode, workers, names, corrupt, documents, pc, consumed, slides, slide_dict,
                   filtered_dict, src_document, out_document,
                   pages_to_keep, output, log>>
    /\ UNCHANGED <<mainVars, auxVars>>

\* Directory mode: as_completed yields a finished future; its result is not read.
AsCompleted(f) ==
    /\ main_pc = "as_completed"
    /\ pc[f] = "done"
    /\ f \notin consumed
    /\ consumed' = consumed \cup {f}
    /\ UNCHANGED <<mode, workers, names, corrupt, documents, main_pc, pc, slides, slide_dict,
                   filtered_dict, src_document, out_document,
                   pages_to_keep, output, log>>
    /\ UNCHANGED <<mainVars, auxVars>>

\* Directory mode: every future was yielded; the with block shuts the pool down.
ProcessDirectoryReturn ==
    /\ main_pc = "as_completed"
    /\ consumed = Files
    /\ main_pc' = "finished"
    /\ UNCHANGED <<mode, workers, names, corrupt, documents, pc, consumed, slides, slide_dict,
                   filtered_dict, src_document, out_document,
                   pages_to_keep, output, log>>
    /\ UNCHANGED <<mainVars, auxVars>>

Next ==
    \/ ProcessInputPath
    \/ \E f \in Files : ExtractSlideInformation(f)
    \/ \E f \in Files : CreateSlideDict(f)
    \/ \E f \in Files : FilterSlideDict(f)
    \/ \E f \in Files : FilterPdfPages(f)
    \/ \E f \in Files : FilterPdfPagesSave(f)
    \/ ProcessFileReturn

Spec == Init /\ [][Next]_vars

BatchNext ==
    \/ ProcessInputPath
    \/ \E f \in Files : WorkerStart(f)
    \/ \E f \in Files : ExtractSlideInformation(f)
    \/ \E f \in Files : CreateSlideDict(f)
    \/ \E f \in Files : FilterSlideDict(f)
    \/ \E f \in Files : FilterPdfPages(f)
    \/ \E f \in Files : FilterPdfPagesSave(f)
    \/ \E f \in Files : AsCompleted(f)
    \/ ProcessDirectoryReturn

BatchSpec == BatchInit /\ [][BatchNext]_vars

MainNext ==
    \/ Main
    \/ ProcessInputPath
    \/ \E f \in Files : WorkerStart(f)
    \/ \E f \in Files : ExtractSlideInformation(f)
    \/ \E f \in Files : CreateSlideDict(f)
    \/ \E f \in Files : FilterSlideDict(f)
    \/ \E f \in Files : FilterPdfPages(f)
    \/ \E f \in Files : FilterPdfPagesSave(f)
    \/ \E f \in Files : AsCompleted(f)
    \/ ProcessFileReturn
    \/ ProcessDirectoryReturn

MainSpec == MainInit /\ [][MainNext]_vars

\* The operating system schedules every worker process and the caller: no
\* enabled step is postponed forever.
FairBatchSpec == BatchSpec /\ WF_vars(BatchNext)

\* ---------------------------------------------------------------- directory listing

\* The directory listing of process_directory and, per pdf file, the output
\* path its worker derives.
PathInit ==
    /\ listing \in SUBSET SampleNames
    /\ same_dir \in BOOLEAN
    /\ pdf_files = {}
    /\ path_pc = "start"
    /\ out_path = <<>>
    /\ mode = "dir"
    /\ workers = 1
    /\ documents = <<>>
    /\ names = <<>>
    /\ output_dir = "existing"
    /\ InitFiles
    /\ WhisperIdle

\* pdf_files = [f for f in os.listdir(directory_path) if f.endswith(".pdf")]
ListDirectory ==
    /\ path_pc = "start"
    /\ pdf_files' = {name \in listing : endswith(name, Pdf)}
    /\ path_pc' = "listed"
    /\ UNCHANGED <<listing, same_dir, out_path>>
    /\ UNCHANGED <<pipeVars, mainVars, whisperVars>>

\* The worker of a pdf file derives its output path in filter_pdf_pages.
DeriveOutputPath(name) ==
    /\ path_pc = "listed"
    /\ name \in pdf_files
    /\ name \notin DOMAIN out_path
    /\ out_path' = DictSet(out_path, name,
                           output_path_of(SourcePath(name),
                                          IF same_dir THEN "input" ELSE "output"))
    /\ UNCHANGED <<listing, same_dir, pdf_files, path_pc>>
    /\ UNCHANGED <<pipeVars, mainVars, whisperVars>>

PathNext ==
    \/ ListDirectory
    \/ \E name \in SampleNames : DeriveOutputPath(name)

PathSpec == PathInit /\ [][PathNext]_vars

\* ---------------------------------------------------------------- transcription

\* max_workers of process_multiple_files
ThreadPoolWorkers == 3

\* 1..n audio files were submitted to the thread pool.
WhisperInit ==
    /\ \E n \in 1..MaxAudio :
           /\ w_files = 1..n
           /\ w_pc = [t \in 1..n |-> "queued"]
           /\ w_local = [t \in 1..n |-> 0]
           /\ w_used = [t \in 1..n |-> 0]
    /\ w_model = 0
    /\ w_loads = 0
    /\ mode = "dir"
    /\ workers = 1
    /\ documents = <<>>
    /\ names = <<>>
    /\ output_dir = "existing"
    /\ InitFiles
    /\ PathIdle

WRunning == {t \in w_files : w_pc[t] \notin {"queued", "done"}}

\* A free thread of the pool takes the next submitted call.
WStart(t) ==
    /\ w_pc[t] = "queued"
    /\ \A u \in w_files : w_pc[u] = "queued" => t <= u
    /\ Cardinality(WRunning) < ThreadPoolWorkers
    /\ w_pc' = [w_pc EXCEPT ![t] = "hasattr"]
    /\ UNCHANGED <<w_files, w_model, w_loads, w_local, w_used>>
    /\ UNCHANGED <<pipeVars, mainVars, pathVars>>

\* "if not hasattr(transcribe_audio, 'model')"
WHasAttr(t) ==
    /\ w_pc[t] = "hasattr"
    /\ w_pc' = [w_pc EXCEPT ![t] = IF w_model = 0 THEN "load_model" ELSE "transcribe"]
    /\ UNCHANGED <<w_files, w_model, w_loads, w_local, w_used>>
    /\ UNCHANGED <<pipeVars, mainVars, pathVars>>

\* whisper.load_model(model_name).to(device): a new model, or an exception
\* that ends the call.
WLoadModel(t) ==
    /\ w_pc[t] = "load_model"
    /\ \E ok \in BOOLEAN :
           IF ok
           THEN /\ w_loads' = w_loads + 1
                /\ w_local' = [w_local EXCEPT ![t] = w_loads + 1]
                /\ w_pc' = [w_pc EXCEPT ![t] = "assign"]
           ELSE /\ UNCHANGED <<w_loads, w_local>>
                /\ w_pc' = [w_pc EXCEPT ![t] = "done"]
    /\ UNCHANGED <<w_files, w_model, w_used>>
    /\ UNCHANGED <<pipeVars, mainVars, pathVars>>

\* "transcribe_audio.model = ..."
WAssign(t) ==
    /\ w_pc[t] = "assign"
    /\ w_model' = w_local[t]
    /\ w_pc' = [w_pc EXCEPT ![t] = "transcribe"]
    /\ UNCHANGED <<w_files, w_loads, w_local, w_used>>
    /\ UNCHANGED <<pipeVars, mainVars, pathVars>>

\* transcribe_audio.model.transcribe(...): uses the model the attribute
\* holds when it is read; the call is still running on its thread.
WTranscribe(t) ==
    /\ w_pc[t] = "transcribe"
    /\ w_used' = [w_used EXCEPT ![t] = w_model]
    /\ w_pc' = [w_pc EXCEPT ![t] = "save_transcription"]
    /\ UNCHANGED <<w_files, w_model, w_loads, w_local>>
    /\ UNCHANGED <<pipeVars, mainVars, pathVars>>

\* The transcription is written and transcribe_audio returns (or an
\* exception ends it): the thread is free for the next submitted call.
WReturn(t) ==
    /\ w_pc[t] = "save_transcription"
    /\ w_pc' = [w_pc EXCEPT ![t] = "done"]
    /\ UNCHANGED <<w_files, w_model, w_loads, w_local, w_used>>
    /\ UNCHANGED <<pipeVars, mainVars, pathVars>>

WhisperNext ==
    \/ \E t \in w_files : WStart(t)
    \/ \E t \in w_files : WHasAttr(t)
    \/ \E t \in w_files : WLoadModel(t)
    \/ \E t \in w_files : WAssign(t)
    \/ \E t \in w_files : WTranscribe(t)
    \/ \E t \in w_files : WReturn(t)

WhisperSpec == WhisperInit /\ [][WhisperNext]_vars

\* ================================================================ claims

Computed(f) == pc[f] \in {"filter_pdf_pages", "save", "done"}
Created(f) == pc[f] \in {"filter_slide_dict", "filter_pdf_pages", "save", "done"}
Saved(f) == output[f].state = "saved"

Positions(f) == {slides[f][i].page_number : i \in DOMAIN slides[f]}
LastOf(pages) == CHOOSE p \in DOMAIN pages : \A q \in DOMAIN pages : q <= p

\* q is the position that follows p in the group
IsSuccessor(pages, p, q) ==
    /\ p \in DOMAIN pages
    /\ q \in DOMAIN pages
    /\ p < q
    /\ \A r \in DOMAIN pages : ~(p < r /\ r < q)

NonDecreasing(pages) ==
    \A p, q \in DOMAIN pages : IsSuccessor(pages, p, q) => pages[p] <= pages[q]
StrictlyDecreasing(pages) ==
    \A p, q \in DOMAIN pages : IsSuccessor(pages, p, q) => pages[q] < pages[p]

\* C1: in every group of at least two pages, a position whose successor in
\* the group is strictly shorter is among the pages kept for the group.
C1_PeakRetained ==
    \A f \in Files : Computed(f) =>
        \A t \in DOMAIN slide_dict[f] :
            LET pages == slide_dict[f][t]
            IN Cardinality(DOMAIN pages) >= 2 =>
                   \A p, q \in DOMAIN pages :
                       (IsSuccessor(pages, p, q) /\ pages[q] < pages[p])
                           => p \in Range(filtered_dict[f][t])

\* A group whose peak and its shorter successor are separated by a page of
\* another title.
C1_Witness ==
    \E f \in Files : Computed(f) /\
        \E t \in DOMAIN slide_dict[f] :
            LET pages == slide_dict[f][t]
            IN \E p, q \in DOMAIN pages :
                   /\ IsSuccessor(pages, p, q)
                   /\ q > p + 1
                   /\ pages[q] < pages[p]
                   /\ p \in Range(filtered_dict[f][t])

\* C2: the highest position of every non-empty group is kept, whatever the
\* sequence of its content lengths.
C2_LastRetained ==
    \A f \in Files : Computed(f) =>
        \A t \in DOMAIN slide_dict[f] :
            DOMAIN slide_dict[f][t] # {} =>
                LastOf(slide_dict[f][t]) \in Range(filtered_dict[f][t])

\* A group of three pages that shrinks and then grows, its last page kept.
C2_Witness ==
    \E f \in Files : Computed(f) /\
        \E t \in DOMAIN slide_dict[f] :
            LET pages == slide_dict[f][t]
            IN /\ DOMAIN pages = {1, 2, 3}
               /\ pages[2] < pages[1]
               /\ pages[3] > pages[2]
               /\ 3 \in Range(filtered_dict[f][t])

\* C3: a group whose content lengths never decrease keeps exactly its last
\* position; a tie keeps nothing.
C3_NonDecreasingKeepsLast ==
    \A f \in Files : Computed(f) =>
        \A t \in DOMAIN slide_dict[f] :
            LET pages == slide_dict[f][t]
            IN (DOMAIN pages # {} /\ NonDecreasing(pages))
                   => filtered_dict[f][t] = <<LastOf(pages)>>

\* A non-decreasing group of three pages with a tie and a strict growth.
C3_Witness ==
    \E f \in Files : Computed(f) /\
        \E t \in DOMAIN slide_dict[f] :
            LET pages == slide_dict[f][t]
            IN /\ DOMAIN pages = {1, 2, 3}
               /\ NonDecreasing(pages)
               /\ \E p \in {1, 2} : pages[p] = pages[p + 1]
               /\ \E p \in {1, 2} : pages[p] < pages[p + 1]
               /\ filtered_dict[f][t] = <<3>>

\* C4: a group of exactly one page keeps exactly that page, whatever its
\* content length.
C4_SingletonKept ==
    \A f \in Files : Computed(f) =>
        \A t \in DOMAIN slide_dict[f] :
            \A p \in DOMAIN slide_dict[f][t] :
                DOMAIN slide_dict[f][t] = {p} => filtered_dict[f][t] = <<p>>

\* A one-page group whose position differs from its content length, beside
\* a group of several pages.
C4_Witness ==
    \E f \in Files : Computed(f) /\
        \E t, u \in DOMAIN slide_dict[f] :
            \E p \in DOMAIN slide_dict[f][t] :
                /\ DOMAIN slide_dict[f][t] = {p}
                /\ slide_dict[f][t][p] # p
                /\ filtered_dict[f][t] = <<p>>
                /\ Cardinality(DOMAIN slide_dict[f][u]) > 1

\* The saved output read as a source document, and the retention set a second
\* run of the pipeline computes for it.
OutputAsDocument(f) == [i \in 1..Len(output[f].pages) |-> output[f].pages[i].text]
Regrouped(f) == create_slide_dict(extract_slide_information(OutputAsDocument(f), -1))
Recompacted(f) == union_pages(filter_slide_dict(Regrouped(f)))

\* C5 as stated: running the pipeline on the saved output keeps every page
\* of it.
C5_Idempotent ==
    \A f \in Files : Saved(f) => Recompacted(f) = 1..Len(output[f].pages)

\* C5 as amended: running the pipeline on the saved output keeps every page of
\* it exactly when, within every title of the output, the content lengths
\* strictly decrease from page to page.
C5_IdempotentIffDecreasing ==
    \A f \in Files : Saved(f) =>
        ((Recompacted(f) = 1..Len(output[f].pages))
            <=> \A t \in DOMAIN Regrouped(f) : StrictlyDecreasing(Regrouped(f)[t]))

\* A saved output with two pages of one title that a second run keeps whole.
C5_Witness ==
    \E f \in Files :
        /\ Saved(f)
        /\ Len(output[f].pages) < Len(documents[f])
        /\ \E t \in DOMAIN Regrouped(f) : Cardinality(DOMAIN Regrouped(f)[t]) >= 2
        /\ Recompacted(f) = 1..Len(output[f].pages)

\* C6: the union of the pages kept per group is a subset of the positions of
\* the snapshots and is not empty when there are snapshots; it is the
\* retention set filter_pdf_pages applies.
C6_RetentionSubsetNonEmpty ==
    \A f \in Files : Computed(f) =>
        /\ union_pages(filtered_dict[f]) \subseteq Positions(f)
        /\ slides[f] # <<>> => union_pages(filtered_dict[f]) # {}
        /\ Saved(f) => pages_to_keep[f] = union_pages(filtered_dict[f])

\* Three snapshots in two groups of which a proper, non-empty part is kept.
C6_Witness ==
    \E f \in Files :
        /\ Saved(f)
        /\ Len(slides[f]) = 3
        /\ Cardinality(DOMAIN slide_dict[f]) = 2
        /\ Cardinality(pages_to_keep[f]) = 2

\* C7: every snapshot's position is in exactly one group, the one of its
\* title, mapped to its content length; no group holds another position.
C7_Partition ==
    \A f \in Files : Created(f) =>
        /\ \A i \in DOMAIN slides[f] :
               LET slide == slides[f][i]
               IN /\ slide.title \in DOMAIN slide_dict[f]
                  /\ \A t \in DOMAIN slide_dict[f] :
                         slide.page_number \in DOMAIN slide_dict[f][t] <=> t = slide.title
                  /\ slide_dict[f][slide.title][slide.page_number] = slide.content_length
        /\ \A t \in DOMAIN slide_dict[f] :
               DOMAIN slide_dict[f][t] \subseteq Positions(f)

\* Two groups, one of them holding two snapshots that are not neighbours.
C7_Witness ==
    \E f \in Files : Created(f) /\
        \E t, u \in DOMAIN slide_dict[f] :
            /\ t # u
            /\ DOMAIN slide_dict[f][t] = {1, 3}
            /\ DOMAIN slide_dict[f][u] = {2}

\* C8 as stated: the output filter_pdf_pages saves holds exactly the pages of
\* the retention set, each once, in ascending order of position, with the
\* text they have in the document it opened.
C8_OutputExactlyRetained ==
    [][\A f \in Files :
          (pc[f] = "save" /\ output'[f].state = "saved") =>
              LET out == output'[f].pages
              IN /\ {out[i].src + 1 : i \in DOMAIN out} = pages_to_keep[f]
                 /\ Len(out) = Cardinality(pages_to_keep[f])
                 /\ \A i, j \in DOMAIN out : i < j => out[i].src < out[j].src
                 /\ \A i \in DOMAIN out :
                        out[i].text = src_document[f][out[i].src + 1]]_vars

\* C9 as stated: once the output is saved, the removed count N - K is reported
\* and no failure is logged for the compaction.
C9_SavedReportsRemoved ==
    \A f \in Files : (pc[f] = "done" /\ Saved(f)) =>
        /\ LogInfo("removed", Len(src_document[f]) - Cardinality(pages_to_keep[f]))
               \in Range(log[f])
        /\ LogError("filter_pdf_pages") \notin Range(log[f])

\* C10: in directory mode every discovered document is processed to the end
\* and the batch finishes, whichever extractions and compactions fail.
C10_BatchCompletes ==
    <>(main_pc = "finished" /\ \A f \in Files : pc[f] = "done")

\* A finished batch in which the extraction of one document failed and the
\* output of another was saved.
C10_Witness ==
    /\ main_pc = "finished"
    /\ \E f, g \in Files :
           /\ f # g
           /\ LogError("extract_slide_information") \in Range(log[f])
           /\ Saved(g)
           /\ pc[f] = "done"
           /\ pc[g] = "done"

Extracted(f) ==
    pc[f] \in {"create_slide_dict", "filter_slide_dict", "filter_pdf_pages", "save", "done"}
ExtractFailed(f) == LogError("extract_slide_information") \in Range(log[f])

\* C11 as stated: a finished batch has reported a summary that counts the
\* succeeded and the failed documents, the two adding up to the documents
\* discovered.
C11_BatchSummary ==
    (mode = "dir" /\ main_pc = "finished") =>
        \E a, b \in 0..Cardinality(Files) :
            /\ a + b = Cardinality(Files)
            /\ LogInfo("succeeded", a) \in Range(main_log)
            /\ LogInfo("failed", b) \in Range(main_log)

\* C12: an extraction that failed, at whichever page, yields no snapshot; one
\* that did not fail yields one snapshot per page, numbered from 1.
C12_ExtractionAllOrNothing ==
    \A f \in Files : Extracted(f) =>
        IF ExtractFailed(f)
        THEN slides[f] = <<>>
        ELSE /\ Len(slides[f]) = Len(documents[f])
             /\ \A i \in DOMAIN slides[f] : slides[f][i].page_number = i

\* A failed extraction of a document of three pages, which left no snapshot.
C12_Witness ==
    \E f \in Files :
        /\ Extracted(f)
        /\ ExtractFailed(f)
        /\ Len(documents[f]) = 3
        /\ slides[f] = <<>>

\* C13 as stated: whatever is at the final output path is a fully written
\* output; a failed save leaves nothing there.
C13_OutputOnlyOnSuccess ==
    \A f \in Files : output[f].state # "absent" => output[f].state = "saved"

\* C14 as stated: with an input path that is neither a file nor a directory
\* the error is reported, no document is processed and nothing is created,
\* the output directory included.
C14_InvalidInputNoWork ==
    mode = "invalid" =>
        /\ output_dir # "created"
        /\ \A f \in Files : pc[f] = "idle" /\ output[f] = NoOutput
        /\ main_pc = "finished" => LogError("process_input_path") \in Range(main_log)

\* The retention set the pipeline computes for a document processed alone.
AloneRetention(document) ==
    union_pages(filter_slide_dict(create_slide_dict(
        extract_slide_information(document, -1))))

\* C15 as stated: in directory mode the retention set a worker applies to a
\* document (the one filter_pdf_pages opens and compacts into a saved output)
\* is the one the pipeline computes for that document alone, whatever the
\* other documents hold and however the workers interleave.
C15_PerDocumentRetention ==
    [][\A f \in Files :
          (pc[f] = "save" /\ output'[f].state = "saved")
              => pages_to_keep[f] = AloneRetention(src_document[f])]_vars

\* The first non-empty line of a page text, and the text after that line.
NonEmptyLines(lines) == {k \in DOMAIN lines : lines[k] # <<>>}
FirstNonEmpty(lines) == CHOOSE k \in NonEmptyLines(lines) : \A j \in NonEmptyLines(lines) : k <= j
TextAfter(lines, k) == join(SubSeq(lines, k + 1, Len(lines)))

\* C16 as stated: the title is the first non-empty line of the page text and
\* "No Title" only when no line has text; the content is the text after the
\* title and "No Content" whenever that is empty.
C16_TitleFirstNonEmptyLine ==
    \A f \in Files : (Extracted(f) /\ ~ExtractFailed(f)) =>
        \A i \in DOMAIN slides[f] :
            LET lines == split(documents[f][i])
                rest == IF NonEmptyLines(lines) = {} THEN <<>>
                        ELSE TextAfter(lines, FirstNonEmpty(lines))
            IN /\ slides[f][i].title =
                      IF NonEmptyLines(lines) = {} THEN NoTitle
                      ELSE lines[FirstNonEmpty(lines)]
               /\ slides[f][i].content = IF rest = <<>> THEN NoContent ELSE rest

\* The positions of a group whose successor in the group is strictly shorter.
Peaks(pages) ==
    {p \in DOMAIN pages : \E q \in DOMAIN pages : IsSuccessor(pages, p, q) /\ pages[q] < pages[p]}

\* C17: the pages kept for a group are its peaks and its last position and
\* nothing else, each once: as many as strict decreases, plus one.
C17_ExactlyPeaksAndLast ==
    \A f \in Files : Computed(f) =>
        \A t \in DOMAIN slide_dict[f] :
            LET pages == slide_dict[f][t]
            IN DOMAIN pages # {} =>
                   /\ Range(filtered_dict[f][t]) = Peaks(pages) \cup {LastOf(pages)}
                   /\ Len(filtered_dict[f][t]) = Cardinality(Peaks(pages)) + 1

\* A group that shrinks and then grows to less than its running maximum:
\* the middle page is not kept.
C17_Witness ==
    \E f \in Files : Computed(f) /\
        \E t \in DOMAIN slide_dict[f] :
            LET pages == slide_dict[f][t]
            IN /\ DOMAIN pages = {1, 2, 3}
               /\ pages[2] < pages[1]
               /\ pages[2] < pages[3]
               /\ pages[3] < pages[1]
               /\ filtered_dict[f][t] = <<1, 3>>

\* C18: every position of a group that is not kept is followed, in the group,
\* by a kept position whose content is at least as long.
C18_DroppedCovered ==
    \A f \in Files : Computed(f) =>
        \A t \in DOMAIN slide_dict[f] :
            LET pages == slide_dict[f][t]
            IN \A p \in (DOMAIN pages) \ Range(filtered_dict[f][t]) :
                   \E q \in Range(filtered_dict[f][t]) : q > p /\ pages[q] >= pages[p]

\* A group of three pages whose first page is dropped and covered by the
\* second, a peak.
C18_Witness ==
    \E f \in Files : Computed(f) /\
        \E t \in DOMAIN slide_dict[f] :
            LET pages == slide_dict[f][t]
            IN /\ DOMAIN pages = {1, 2, 3}
               /\ pages[1] <= pages[2]
               /\ pages[3] < pages[2]
               /\ filtered_dict[f][t] = <<2, 3>>

\* C19 as stated: no derived output path is the source path of a document of
\* the batch, and two documents never get the same output path.
C19_OutputsAreNotSources ==
    \A n \in DOMAIN out_path :
        /\ \A m \in pdf_files : out_path[n] # SourcePath(m)
        /\ \A m \in DOMAIN out_path : m # n => out_path[m] # out_path[n]

\* C20 as stated: the model is loaded at most once, and all transcriptions
\* use the same model.
C20_ModelLoadedOnce ==
    /\ w_loads <= 1
    /\ \A t, u \in w_files :
           (w_used[t] # 0 /\ w_used[u] # 0) => w_used[t] = w_used[u]

====
